---- MODULE Spec2Model ----
(***************************************************************************)
(* A model of the LinkedIn syndicator: LinkedInSyndicator.syndicate        *)
(* (index.js), LinkedIn.post and the remote calls it makes                 *)
(* (lib/linkedin.js), and the content builders (lib/utils.js).             *)
(*                                                                         *)
(* Strings are sequences of one-character tokens.  A JavaScript value that *)
(* is undefined, null or "" is the empty sequence: the code only ever      *)
(* tests these values for truthiness.                                      *)
(***************************************************************************)
EXTENDS Integers, Sequences, FiniteSets, TLC

\* ------------------------------------------------------------------ bounds
MaxTextLen == 4
MaxUrlLen == 2
MaxLimit == 8
MaxOver == 2

\* --------------------------------------------------------------- constants
DefaultCharacterLimit == 3000
DescriptionLimit == 256
DefaultStatus == 500

Absent == <<>>
NL == "\n"
SP == " "
Ellipsis == "ELLIPSIS"
Whitespace == {NL, SP}
Untitled == <<"Untitled">>

\* ----------------------------------------------------------------- strings
Min(a, b) == IF a < b THEN a ELSE b
Max(a, b) == IF a > b THEN a ELSE b

\* All sequences over alphabet A of length at most n.
SeqsUpTo(A, n) == UNION {[1..k -> A] : k \in 0..n}

\* String.prototype.slice(0, end): a negative end counts from the end.
Slice0(s, end) ==
  IF end < 0 THEN SubSeq(s, 1, Max(Len(s) + end, 0))
  ELSE SubSeq(s, 1, Min(end, Len(s)))

RECURSIVE TrimStart(_)
TrimStart(s) ==
  IF s # <<>> /\ Head(s) \in Whitespace THEN TrimStart(Tail(s)) ELSE s

RECURSIVE TrimEnd(_)
TrimEnd(s) ==
  IF s # <<>> /\ s[Len(s)] \in Whitespace
  THEN TrimEnd(SubSeq(s, 1, Len(s) - 1)) ELSE s

\* String.prototype.trim()
Trim(s) == TrimEnd(TrimStart(s))

\* String.prototype.includes(p)
Includes(s, p) ==
  \E i \in 0..(Len(s) - Len(p)) : SubSeq(s, i + 1, i + Len(p)) = p

\* ------------------------------------------------------------ lib/utils.js
IsTag(tok) == tok \in {"<b>", "</b>", "<img>"}

\* htmlToPlainText: markup tokens contribute nothing, text tokens are kept.
\* (The html-to-text library's whitespace layout is not modelled.)
htmlToPlainText(html) == SelectSeq(html, LAMBDA tok : ~IsTag(tok))

\* Mutant: the truncated text leaves no room for the ellipsis.
truncateNoEllipsisRoom(text, permalink, limit) ==
  IF text = <<>> THEN permalink
  ELSE IF permalink # <<>> /\ ~Includes(text, permalink)
  THEN LET suffix == <<NL, NL>> \o permalink
           available == limit - Len(suffix)
       IN IF Len(text) > available
          THEN Trim(Slice0(text, available)) \o <<Ellipsis>> \o suffix
          ELSE text \o suffix
  ELSE IF Len(text) > limit
  THEN Trim(Slice0(text, limit)) \o <<Ellipsis>>
  ELSE text

\* Mutant: a truncated text is returned without the permalink.
truncateDropsPermalink(text, permalink, limit) ==
  IF text = <<>> THEN permalink
  ELSE IF permalink # <<>> /\ ~Includes(text, permalink)
  THEN LET suffix == <<NL, NL>> \o permalink
           available == limit - Len(suffix)
       IN IF Len(text) > available
          THEN Trim(Slice0(text, available - 1)) \o <<Ellipsis>>
          ELSE text \o suffix
  ELSE IF Len(text) > limit
  THEN Trim(Slice0(text, limit - 1)) \o <<Ellipsis>>
  ELSE text

truncateWithPermalink(text, permalink, limit) ==
  IF text = <<>> THEN permalink
  ELSE IF permalink # <<>> /\ ~Includes(text, permalink)
  THEN LET suffix == <<NL, NL>> \o permalink
           available == limit - Len(suffix)
       IN IF Len(text) > available
          THEN Trim(Slice0(text, available - 1)) \o <<Ellipsis>> \o suffix
          ELSE text \o suffix
  ELSE IF Len(text) > limit
  THEN Trim(Slice0(text, limit - 1)) \o <<Ellipsis>>
  ELSE text

\* The text createNoteContent selects before truncation.
NoteText(properties, isArticle) ==
  IF isArticle
  THEN IF properties.summary # <<>> THEN properties.summary
       ELSE IF properties.contentHtml # <<>>
       THEN htmlToPlainText(properties.contentHtml)
       ELSE IF properties.contentText # <<>> THEN properties.contentText
       ELSE <<>>
  ELSE IF properties.contentHtml # <<>>
       THEN htmlToPlainText(properties.contentHtml)
       ELSE IF properties.contentText # <<>> THEN properties.contentText
       ELSE IF properties.name # <<>> THEN properties.name
       ELSE <<>>

createNoteContent(properties, characterLimit, isArticle) ==
  truncateWithPermalink(NoteText(properties, isArticle), properties.url,
                        characterLimit)

\* The description createArticleContent derives before truncation.
DescriptionText(properties) ==
  IF properties.summary # <<>> THEN properties.summary
  ELSE IF properties.contentHtml # <<>>
  THEN htmlToPlainText(properties.contentHtml)
  ELSE IF properties.contentText # <<>> THEN properties.contentText
  ELSE <<>>

\* Mutant: the description is cut one character too late.
TruncateDescriptionLate(description) ==
  IF Len(description) > DescriptionLimit
  THEN Trim(Slice0(description, DescriptionLimit)) \o <<Ellipsis>>
  ELSE description

\* Mutant: the cut description is not trimmed.
TruncateDescriptionUntrimmed(description) ==
  IF Len(description) > DescriptionLimit
  THEN Slice0(description, DescriptionLimit - 1) \o <<Ellipsis>>
  ELSE description

TruncateDescription(description) ==
  IF Len(description) > DescriptionLimit
  THEN Trim(Slice0(description, DescriptionLimit - 1)) \o <<Ellipsis>>
  ELSE description

createArticleContent(properties) ==
  [source |-> properties.url,
   title |-> IF properties.name # <<>> THEN properties.name ELSE Untitled,
   description |-> TruncateDescription(DescriptionText(properties)),
   thumbnail |-> Absent]

\* ------------------------------------------------------------------ values
\* Image URLs, upload targets, image URNs, subject and entity identifiers.
ImageUrls == {<<"i1">>, <<"i2">>}
Handles == {<<"urn:li:image:1">>, <<"urn:li:image:2">>}
UploadUrl == <<"upload">>
Subject == <<"sub1">>
EntityId == <<"urn:li:share:1">>
PostUrl == <<"u">>
PluginName == <<"LinkedIn syndicator">>

\* An error value: error.name, error.response?.status,
\* error.response?.statusText, error.status, error.statusCode, error.message
\* (0 and <<>> where the field is missing).
Err(name, rs, rt, st, sc, msg) ==
  [name |-> name, responseStatus |-> rs, responseStatusText |-> rt,
   status |-> st, statusCode |-> sc, message |-> msg]

NoError == Err(<<>>, 0, <<>>, 0, 0, <<>>)
TypeError == Err(<<"TypeError">>, 0, <<>>, 0, 0, <<"Cannot read properties">>)

\* What a remote call can be rejected with.
RemoteErrors ==
  {Err(<<"Error">>, 401, <<"Unauthorized">>, 0, 0, <<"Request failed">>),
   Err(<<"Error">>, 0, <<>>, 429, 0, <<"Too many requests">>),
   Err(<<"Error">>, 0, <<>>, 0, 503, <<"Unavailable">>),
   Err(<<"Error">>, 0, <<>>, 0, 0, <<"Network error">>)}

\* A photo reference: a bare URL string, or a record with a url field.
PhotoRef(isString, url) == [isString |-> isString, url |-> url]

\* properties.photo: absent, one reference, or an ordered sequence of them.
Photo(shape, items) == [shape |-> shape, items |-> items]

NoPhoto == Photo("absent", <<>>)

Photos ==
  {NoPhoto,
   Photo("single", <<PhotoRef(TRUE, <<"i1">>)>>),
   Photo("single", <<PhotoRef(FALSE, <<"i1">>)>>),
   Photo("single", <<PhotoRef(FALSE, Absent)>>),
   Photo("array", <<>>),
   Photo("array", <<PhotoRef(TRUE, <<"i2">>), PhotoRef(TRUE, <<"i1">>)>>),
   Photo("array", <<PhotoRef(FALSE, <<"i1">>)>>)}

Props(postType, url, name, summary, html, text, photo) ==
  [postType |-> postType, url |-> url, name |-> name, summary |-> summary,
   contentHtml |-> html, contentText |-> text, photo |-> photo]

NoProps == Props(<<>>, <<>>, <<>>, <<>>, <<>>, <<>>, NoPhoto)

\* The properties a syndication request is drawn from.
PostInputs ==
  {Props(pt, url, <<"T">>, sm, <<>>, <<"a", "a", "a">>, ph) :
     pt \in {<<"article">>, <<"note">>, Absent},
     url \in {PostUrl, Absent},
     sm \in {<<"a">>, Absent},
     ph \in Photos}

\* ------------------------------------------------------------------- state
VARIABLES
  options,         \* LinkedInSyndicator.options.characterLimit
  properties,      \* the JF2 properties of the request
  characterLimit,  \* LinkedIn.characterLimit
  pc,              \* the call the request is waiting for
  log,             \* the calls made and how each ended, oldest first
  posts,           \* the entities sent to /posts
  authorUrn,       \* post: authorUrn
  article,         \* post: article
  commentary,      \* post: commentary
  uploadFor,       \* getArticleThumbnail: which uploadImage call is running
  imageUrl,        \* uploadImage: imageUrl
  imageUrn,        \* uploadImage: imageUrn
  uploadUrl,       \* uploadImage: uploadUrl
  returned,        \* what syndicate returned
  thrown           \* what syndicate threw

vars == <<options, properties, characterLimit, pc, log, posts, authorUrn,
          article, commentary, uploadFor, imageUrl, imageUrn, uploadUrl,
          returned, thrown>>

NoArticle == [source |-> <<>>, title |-> <<>>, description |-> <<>>,
              thumbnail |-> <<>>]

NoThrow == [name |-> <<>>, message |-> <<>>, cause |-> NoError,
            plugin |-> <<>>, status |-> 0]

Event(ev, op, arg) == [ev |-> ev, op |-> op, arg |-> arg]

\* ------------------------------------------------------------ constructors
\* LinkedIn constructor: options.characterLimit || 3000
LinkedInCharacterLimit(limit) ==
  IF limit = 0 THEN DefaultCharacterLimit ELSE limit

\* ---------------------------------------------------------------- index.js
\* syndicate's catch: the error wrapped in an IndiekitError with a status.
IndiekitError(error) ==
  [name |-> <<"IndiekitError">>,
   message |-> IF error.responseStatusText # <<>>
               THEN <<"Could not create LinkedIn post: ">>
                      \o error.responseStatusText
               ELSE error.message,
   cause |-> error,
   plugin |-> PluginName,
   status |-> IF error.responseStatus # 0 THEN error.responseStatus
              ELSE IF error.status # 0 THEN error.status
              ELSE IF error.statusCode # 0 THEN error.statusCode
              ELSE DefaultStatus]

\* An error leaves post and reaches syndicate's catch, which throws.
Raise(lg, error) ==
  /\ pc' = "done"
  /\ log' = lg
  /\ thrown' = IndiekitError(error)
  /\ UNCHANGED <<posts, article, uploadFor, imageUrl, returned>>

\* post resolves with url, and syndicate returns it.
Return(lg, url) ==
  /\ pc' = "done"
  /\ log' = lg
  /\ returned' = url
  /\ UNCHANGED <<posts, article, uploadFor, imageUrl, thrown>>

\* ---------------------------------------------------------- lib/linkedin.js
\* A template literal renders a missing value as "undefined".
Interpolate(v) == IF v = <<>> THEN <<"undefined">> ELSE v

PersonUrn(id) == <<"urn:li:person:">> \o Interpolate(id)

Permalink(createdEntityId) ==
  <<"https://www.linkedin.com/feed/update/">>
    \o Interpolate(createdEntityId) \o <<"/">>

\* The entity of a create-post call; a text post embeds no article.
Entity(kind, author, text, art) ==
  [kind |-> kind, author |-> author, commentary |-> text,
   visibility |-> "PUBLIC", feedDistribution |-> "MAIN_FEED",
   lifecycleState |-> "PUBLISHED", isReshareDisabledByAuthor |-> FALSE,
   article |-> art]

\* createTextPost up to its create call.
createTextPost(lg, author, text) ==
  /\ posts' = Append(posts, Entity("text", author, text, NoArticle))
  /\ log' = Append(lg, Event("call", "createTextPost", <<>>))
  /\ pc' = "create"
  /\ UNCHANGED <<article, uploadFor, imageUrl, returned, thrown>>

\* createArticlePost up to its create call: articleEntity carries the
\* thumbnail only when article.thumbnail is set.
createArticlePost(lg, author, text, art) ==
  /\ posts' = Append(posts, Entity("article", author, text, art))
  /\ log' = Append(lg, Event("call", "createArticlePost", art.thumbnail))
  /\ pc' = "create"
  /\ article' = art
  /\ UNCHANGED <<uploadFor, imageUrl, returned, thrown>>

\* post after getArticleThumbnail resolved with thumbnail.
AttachThumbnail(lg, author, text, art, thumbnail) ==
  createArticlePost(Append(lg, Event("ret", "getArticleThumbnail", thumbnail)),
                    author, text,
                    IF thumbnail # <<>>
                    THEN [art EXCEPT !.thumbnail = thumbnail] ELSE art)

\* uploadImage up to its first await: the image fetch.
uploadImage(lg, art, for, url) ==
  /\ log' = Append(lg, Event("call", "fetchImage", url))
  /\ pc' = "fetchImage"
  /\ uploadFor' = for
  /\ imageUrl' = url
  /\ article' = art
  /\ UNCHANGED <<posts, returned, thrown>>

\* getArticleThumbnail from "Fall back to OG image": fetchOpenGraphImage up
\* to its page fetch when properties.url is set, else null.
OgFallback(lg, author, text, art) ==
  IF properties.url # <<>>
  THEN /\ log' = Append(lg, Event("call", "ogFetch", properties.url))
       /\ pc' = "ogFetch"
       /\ article' = art
       /\ UNCHANGED <<posts, uploadFor, imageUrl, returned, thrown>>
  ELSE AttachThumbnail(lg, author, text, art, Absent)

\* The URL of the featured photo: the first element of a sequence, its
\* string value or its url field.
PhotoUrl(photo) ==
  IF photo.shape = "absent" \/ photo.items = <<>> THEN Absent
  ELSE photo.items[1].url

\* Mutant: the photo upload is started but not awaited.
getArticleThumbnailNotAwaited(lg, author, text, art) ==
  IF properties.photo.shape # "absent" /\ PhotoUrl(properties.photo) # <<>>
  THEN createArticlePost(Append(lg, Event("call", "fetchImage",
                                          PhotoUrl(properties.photo))),
                         author, text, art)
  ELSE OgFallback(lg, author, text, art)

\* getArticleThumbnail up to its first await.
getArticleThumbnail(lg, author, text, art) ==
  IF properties.photo.shape # "absent" /\ PhotoUrl(properties.photo) # <<>>
  THEN uploadImage(lg, art, "photo", PhotoUrl(properties.photo))
  ELSE OgFallback(lg, author, text, art)

\* Mutant: the photo's handle is not returned at once, the OG fallback runs.
UploadReturnsNoShortCircuit(lg, urn) ==
  LET lg2 == Append(lg, Event("ret", "uploadImage", urn))
  IN IF uploadFor = "photo"
     THEN OgFallback(lg2, authorUrn, commentary, article)
     ELSE AttachThumbnail(lg2, authorUrn, commentary, article, urn)

\* getArticleThumbnail after an uploadImage call resolved with urn.
UploadReturns(lg, urn) ==
  LET lg2 == Append(lg, Event("ret", "uploadImage", urn))
  IN IF uploadFor = "photo" /\ urn = <<>>
     THEN OgFallback(lg2, authorUrn, commentary, article)
     ELSE AttachThumbnail(lg2, authorUrn, commentary, article, urn)

\* Mutant: a failed upload is started again for the same URL.
UploadRetries(lg) ==
  uploadImage(Append(lg, Event("ret", "uploadImage", Absent)), article,
              uploadFor, imageUrl)

\* Mutant: uploadImage without its catch, the error leaves post.
UploadThrows(lg) == Raise(lg, TypeError)

\* uploadImage's catch, and its non-success returns: null.
UploadFails(lg) == UploadReturns(lg, Absent)

\* Mutant: the image response's status is not looked at, its body is read.
FetchNotOkIgnored(lg) ==
  /\ log' = lg
  /\ pc' = "arrayBuffer"
  /\ UNCHANGED <<posts, article, uploadFor, imageUrl, returned, thrown>>

\* uploadImage when the image response is not ok: null.
FetchNotOk(lg) == UploadFails(lg)

\* Mutant: the PUT response's status is not looked at.
PutNotOkIgnored(lg) == UploadReturns(lg, imageUrn)

\* uploadImage when the PUT response is not ok: null.
PutNotOk(lg) == UploadFails(lg)

\* Mutant: the rejected create call is caught and a permalink is returned.
CreateRejectedSwallowed(lg, error) == Return(lg, Permalink(Absent))

\* post when the create call rejects: the error propagates.
CreateRejected(lg, error) == Raise(lg, error)

\* getArticleThumbnail after fetchOpenGraphImage resolved with ogImageUrl.
OgReturns(lg, ogImageUrl) ==
  LET lg2 == Append(lg, Event("ret", "fetchOpenGraphImage", ogImageUrl))
  IN IF ogImageUrl # <<>>
     THEN uploadImage(lg2, article, "og", ogImageUrl)
     ELSE AttachThumbnail(lg2, authorUrn, commentary, article, Absent)

\* Mutant: any post-type that is set is taken for an article.
IsArticleLoose(postType) == postType # <<>>

IsArticle(postType) == postType = <<"article">>

\* post after getUserInfo resolved: the dispatch on post-type.
Dispatch(lg, author) ==
  IF IsArticle(properties.postType)
  THEN /\ commentary' = createNoteContent(properties, characterLimit, TRUE)
       /\ getArticleThumbnail(lg, author, commentary',
                              createArticleContent(properties))
  ELSE /\ commentary' = createNoteContent(properties, characterLimit, FALSE)
       /\ createTextPost(lg, author, commentary')

\* Mutant: the identity error is caught and post carries on without an id.
UserInfoSwallowed(lg, error) ==
  /\ authorUrn' = PersonUrn(Absent)
  /\ Dispatch(lg, authorUrn')

\* post when getUserInfo rejects: the error propagates.
UserInfoRejected(lg, error) ==
  /\ Raise(lg, error)
  /\ UNCHANGED <<authorUrn, commentary>>

\* The pages an article URL can serve: the content of its og:image and
\* twitter:image meta tags.
Pages ==
  {[og |-> Absent, tw |-> Absent], [og |-> <<"i1">>, tw |-> <<"i2">>],
   [og |-> Absent, tw |-> <<"i2">>]}

\* fetchOpenGraphImage after the page parsed: og:image, else twitter:image.
MetaImage(page) ==
  IF page.og # <<>> THEN page.og
  ELSE IF page.tw # <<>> THEN page.tw
  ELSE Absent

\* ----------------------------------------------------------------- actions
\* syndicate: construct LinkedIn, call post, which calls getUserInfo.
Syndicate ==
  /\ pc = "idle"
  /\ \E p \in PostInputs : properties' = p
  /\ characterLimit' = LinkedInCharacterLimit(options)
  /\ log' = <<Event("call", "userinfo", <<>>)>>
  /\ pc' = "userinfo"
  /\ UNCHANGED <<options, posts, authorUrn, article, commentary, uploadFor,
                 imageUrl, imageUrn, uploadUrl, returned, thrown>>

\* getUserInfo: the /userinfo call ends; post continues to its next await.
UserInfoResponse ==
  /\ pc = "userinfo"
  /\ \/ \E e \in RemoteErrors :
          UserInfoRejected(Append(log, Event("fail", "userinfo", e.message)),
                           e)
     \/ \* a response without data: reading data.sub throws
        UserInfoRejected(Append(log, Event("nodata", "userinfo",
                                           TypeError.message)),
                         TypeError)
     \/ \E sub \in {Subject, Absent} :
          /\ authorUrn' = PersonUrn(sub)
          /\ Dispatch(log \o <<Event("ok", "userinfo", sub),
                               Event("ret", "getUserInfo", authorUrn')>>,
                      authorUrn')
  /\ UNCHANGED <<options, properties, characterLimit, imageUrn, uploadUrl>>

\* uploadImage: the image fetch ends.
FetchImageResponse ==
  /\ pc = "fetchImage"
  /\ \/ UploadFails(Append(log, Event("fail", "fetchImage", imageUrl)))
     \/ FetchNotOk(Append(log, Event("notok", "fetchImage", imageUrl)))
     \/ /\ log' = Append(log, Event("ok", "fetchImage", imageUrl))
        /\ pc' = "arrayBuffer"
        /\ UNCHANGED <<posts, article, uploadFor, imageUrl, returned, thrown>>
  /\ UNCHANGED <<options, properties, characterLimit, authorUrn, commentary,
                 imageUrn, uploadUrl>>

\* uploadImage: the image body is read, and initializeUpload is called.
ArrayBufferResponse ==
  /\ pc = "arrayBuffer"
  /\ \/ UploadFails(Append(log, Event("fail", "arrayBuffer", imageUrl)))
     \/ /\ log' = Append(log, Event("call", "initializeUpload", authorUrn))
        /\ pc' = "initializeUpload"
        /\ UNCHANGED <<posts, article, uploadFor, imageUrl, returned, thrown>>
  /\ UNCHANGED <<options, properties, characterLimit, authorUrn, commentary,
                 imageUrn, uploadUrl>>

\* uploadImage: initializeUpload ends, and the binary PUT is issued.
InitializeUploadResponse ==
  /\ pc = "initializeUpload"
  /\ \/ /\ UploadFails(Append(log, Event("fail", "initializeUpload", <<>>)))
        /\ UNCHANGED <<imageUrn, uploadUrl>>
     \/ \* a response without data.value: the destructuring throws
        /\ UploadFails(Append(log, Event("novalue", "initializeUpload", <<>>)))
        /\ UNCHANGED <<imageUrn, uploadUrl>>
     \/ \E target \in {UploadUrl, Absent}, image \in Handles \cup {Absent} :
          /\ uploadUrl' = target
          /\ imageUrn' = image
          /\ log' = log \o <<Event("ok", "initializeUpload", image),
                             Event("call", "put", target)>>
          /\ pc' = "put"
          /\ UNCHANGED <<posts, article, uploadFor, imageUrl, returned,
                         thrown>>
  /\ UNCHANGED <<options, properties, characterLimit, authorUrn, commentary>>

\* uploadImage: the PUT ends (a missing upload URL can only throw).
PutResponse ==
  /\ pc = "put"
  /\ \/ UploadFails(Append(log, Event("fail", "put", uploadUrl)))
     \/ /\ uploadUrl # <<>>
        /\ PutNotOk(Append(log, Event("notok", "put", uploadUrl)))
     \/ /\ uploadUrl # <<>>
        /\ UploadReturns(Append(log, Event("ok", "put", uploadUrl)), imageUrn)
  /\ UNCHANGED <<options, properties, characterLimit, authorUrn, commentary,
                 imageUrn, uploadUrl>>

\* fetchOpenGraphImage: the page fetch ends.
OgFetchResponse ==
  /\ pc = "ogFetch"
  /\ \/ OgReturns(Append(log, Event("fail", "ogFetch", <<>>)), Absent)
     \/ OgReturns(Append(log, Event("notok", "ogFetch", <<>>)), Absent)
     \/ /\ log' = Append(log, Event("ok", "ogFetch", <<>>))
        /\ pc' = "ogText"
        /\ UNCHANGED <<posts, article, uploadFor, imageUrl, returned, thrown>>
  /\ UNCHANGED <<options, properties, characterLimit, authorUrn, commentary,
                 imageUrn, uploadUrl>>

\* fetchOpenGraphImage: the page body is read and parsed.
OgTextResponse ==
  /\ pc = "ogText"
  /\ \/ OgReturns(Append(log, Event("fail", "ogText", <<>>)), Absent)
     \/ \E page \in Pages :
          OgReturns(Append(log, Event("ok", "ogText", <<>>)), MetaImage(page))
  /\ UNCHANGED <<options, properties, characterLimit, authorUrn, commentary,
                 imageUrn, uploadUrl>>

\* createTextPost / createArticlePost: the create call ends.
CreateResponse ==
  /\ pc = "create"
  /\ LET op == log[Len(log)].op
     IN \/ \E e \in RemoteErrors :
             CreateRejected(Append(log, Event("fail", op, e.message)), e)
        \/ \E id \in {EntityId, Absent} :
             Return(Append(log, Event("ok", op, id)), Permalink(id))
  /\ UNCHANGED <<options, properties, characterLimit, authorUrn, commentary,
                 imageUrn, uploadUrl>>

Init ==
  /\ options \in {0, MaxLimit}
  /\ properties = NoProps
  /\ characterLimit = 0
  /\ pc = "idle"
  /\ log = <<>>
  /\ posts = <<>>
  /\ authorUrn = <<>>
  /\ article = NoArticle
  /\ commentary = <<>>
  /\ uploadFor = "none"
  /\ imageUrl = <<>>
  /\ imageUrn = <<>>
  /\ uploadUrl = <<>>
  /\ returned = <<>>
  /\ thrown = NoThrow

Next ==
  \/ Syndicate
  \/ UserInfoResponse
  \/ FetchImageResponse
  \/ ArrayBufferResponse
  \/ InitializeUploadResponse
  \/ PutResponse
  \/ OgFetchResponse
  \/ OgTextResponse
  \/ CreateResponse

Spec == Init /\ [][Next]_vars

\* ------------------------------------------------- the content builders
\* The text fields a content builder is applied to: one field ranges over
\* every bounded string while the others are empty or short.
Texts == SeqsUpTo({"a", SP, "u"}, MaxTextLen)
Htmls == SeqsUpTo({"a", "<b>", "u"}, MaxTextLen)
Urls == SeqsUpTo({"u"}, MaxUrlLen)
Short == {<<>>, <<"a">>}

ContentInputs ==
  {Props(<<>>, url, n, s, h, t, NoPhoto) :
     url \in Urls,
     n \in Short, s \in Texts, h \in {<<>>}, t \in Short}
  \cup
  {Props(<<>>, url, n, s, h, t, NoPhoto) :
     url \in Urls,
     n \in Short, s \in Short, h \in Htmls, t \in Short}
  \cup
  {Props(<<>>, url, n, s, h, t, NoPhoto) :
     url \in Urls,
     n \in Texts, s \in Short, h \in {<<>>}, t \in {<<>>}}
  \cup
  {Props(<<>>, url, n, s, h, t, NoPhoto) :
     url \in Urls,
     n \in Short, s \in Short, h \in {<<>>}, t \in Texts}

ContentInit ==
  /\ options \in 0..MaxLimit
  /\ characterLimit = LinkedInCharacterLimit(options)
  /\ properties \in ContentInputs
  /\ pc = "content"
  /\ log = <<>>
  /\ posts = <<>>
  /\ authorUrn = <<>>
  /\ article = NoArticle
  /\ commentary = <<>>
  /\ uploadFor = "none"
  /\ imageUrl = <<>>
  /\ imageUrn = <<>>
  /\ uploadUrl = <<>>
  /\ returned = <<>>
  /\ thrown = NoThrow

\* createNoteContent(properties, {characterLimit})
NoteContent ==
  /\ pc = "content"
  /\ commentary' = createNoteContent(properties, characterLimit, FALSE)
  /\ pc' = "note"
  /\ UNCHANGED <<options, properties, characterLimit, log, posts, authorUrn,
                 article, uploadFor, imageUrl, imageUrn, uploadUrl, returned,
                 thrown>>

\* createNoteContent(properties, {characterLimit, isArticle: true})
TeaserContent ==
  /\ pc = "content"
  /\ commentary' = createNoteContent(properties, characterLimit, TRUE)
  /\ pc' = "teaser"
  /\ UNCHANGED <<options, properties, characterLimit, log, posts, authorUrn,
                 article, uploadFor, imageUrl, imageUrn, uploadUrl, returned,
                 thrown>>

\* createArticleContent(properties)
ArticleContent ==
  /\ pc = "content"
  /\ article' = createArticleContent(properties)
  /\ pc' = "articleContent"
  /\ UNCHANGED <<options, properties, characterLimit, log, posts, authorUrn,
                 commentary, uploadFor, imageUrl, imageUrn, uploadUrl,
                 returned, thrown>>

ContentNext == NoteContent \/ TeaserContent \/ ArticleContent

SpecContent == ContentInit /\ [][ContentNext]_vars

\* ------------------------------------------------------- reading the log
CreateOps == {"createTextPost", "createArticlePost"}
UploadOps == {"fetchImage", "initializeUpload", "put"}
ThumbnailOps == UploadOps \cup {"ogFetch"}
Failures == {"fail", "notok", "novalue", "nodata"}
Completions == Failures \cup {"ok"}

CallIndices(ops) ==
  {i \in DOMAIN log : log[i].ev = "call" /\ log[i].op \in ops}

CallsOf(ops) == Cardinality(CallIndices(ops))

\* getUserInfo returned an identity to post.
GetUserInfoReturned ==
  \E i \in DOMAIN log : log[i].ev = "ret" /\ log[i].op = "getUserInfo"

\* The identity call ended and getUserInfo threw.
GetUserInfoFailed ==
  \E i \in DOMAIN log : log[i].op = "userinfo" /\ log[i].ev \in Failures

\* ------------------------------------------------------------------ claims

\* C1: no invocation of post makes more than one post-creation call, and an
\* invocation whose identity call succeeded has made exactly one when it
\* ends: createArticlePost when post-type is "article", createTextPost for
\* every other value (absent included); never both.
C1_OneCreationCall ==
  /\ CallsOf(CreateOps) <= 1
  /\ Len(posts) = CallsOf(CreateOps)
  /\ (pc = "done" /\ GetUserInfoReturned) =>
       IF properties.postType = <<"article">>
       THEN /\ CallsOf({"createArticlePost"}) = 1
            /\ CallsOf({"createTextPost"}) = 0
            /\ posts[1].kind = "article"
       ELSE /\ CallsOf({"createTextPost"}) = 1
            /\ CallsOf({"createArticlePost"}) = 0
            /\ posts[1].kind = "text"

\* C1 witness: a request without post-type ended after one createTextPost.
C1_Witness ==
  /\ pc = "done"
  /\ properties.postType = Absent
  /\ GetUserInfoReturned
  /\ CallsOf({"createTextPost"}) = 1
  /\ returned # <<>>

\* C2: if getUserInfo fails, post aborts with the underlying error before
\* any thumbnail operation or post-creation call: none is ever in the log.
C2_IdentityFailureAborts ==
  /\ ~GetUserInfoReturned => CallsOf(ThumbnailOps \cup CreateOps) = 0
  /\ GetUserInfoFailed =>
       /\ pc = "done"
       /\ CallsOf(ThumbnailOps \cup CreateOps) = 0
       /\ posts = <<>>
       /\ returned = <<>>
       /\ thrown.cause # NoError
       /\ thrown.cause.message = log[Len(log)].arg

\* C2 witness: the identity call was rejected and the request ended.
C2_Witness ==
  /\ pc = "done"
  /\ log[Len(log)] = Event("fail", "userinfo", <<"Request failed">>)
  /\ thrown.status = 401

\* The last event of the log.
Last == log[Len(log)]

IsArticlePost == properties.postType = <<"article">>

\* C3: for an article post no outcome of thumbnail resolution fails the
\* operation: every failure inside uploadImage or fetchOpenGraphImage makes
\* that function return absent, getArticleThumbnail resolving to absent leads
\* to createArticlePost without a thumbnail, and the request ends thrown only
\* when the create call itself was rejected.
C3_ThumbnailNeverFailsPost ==
  /\ \A i \in DOMAIN log :
       (log[i].op \in UploadOps \cup {"arrayBuffer"} /\ log[i].ev \in Failures)
         => /\ i < Len(log)
            /\ log[i + 1] = Event("ret", "uploadImage", Absent)
  /\ \A i \in DOMAIN log :
       (log[i].op \in {"ogFetch", "ogText"} /\ log[i].ev \in Failures)
         => /\ i < Len(log)
            /\ log[i + 1] = Event("ret", "fetchOpenGraphImage", Absent)
  /\ \A i \in DOMAIN log :
       log[i] = Event("ret", "getArticleThumbnail", Absent)
         => /\ i < Len(log)
            /\ log[i + 1] = Event("call", "createArticlePost", Absent)
            /\ posts[1].article.thumbnail = Absent
  /\ (pc = "done" /\ IsArticlePost /\ GetUserInfoReturned) =>
       /\ CallsOf({"createArticlePost"}) = 1
       /\ Last.op = "createArticlePost"
       /\ (thrown # NoThrow) = (Last.ev = "fail")
       /\ (returned # <<>>) = (Last.ev = "ok")

\* C3 witness: the photo upload failed at the PUT, the page of the article
\* could not be parsed, and the article was posted all the same.
C3_Witness ==
  /\ pc = "done"
  /\ IsArticlePost
  /\ \E i \in DOMAIN log : log[i].op = "put" /\ log[i].ev = "fail"
  /\ \E i \in DOMAIN log : log[i].op = "ogText" /\ log[i].ev = "fail"
  /\ posts[1].article.thumbnail = Absent
  /\ returned # <<>>

\* C4: no partial success: a request ends either with the permalink of a
\* create call that succeeded, or thrown with no create call having
\* succeeded; a rejected create call reaches the caller as an IndiekitError
\* that carries the error and a status, and nothing is returned.
C4_NoPartialSuccess ==
  pc = "done" =>
    \/ /\ returned # <<>>
       /\ thrown = NoThrow
       /\ Last.ev = "ok" /\ Last.op \in CreateOps
       /\ returned = <<"https://www.linkedin.com/feed/update/">>
                       \o (IF Last.arg = <<>> THEN <<"undefined">>
                           ELSE Last.arg) \o <<"/">>
    \/ /\ returned = <<>>
       /\ thrown # NoThrow
       /\ thrown.name = <<"IndiekitError">>
       /\ Last.ev \in Failures
       /\ ~\E i \in DOMAIN log : log[i].ev = "ok" /\ log[i].op \in CreateOps
       /\ thrown.cause.message = Last.arg
       /\ thrown.cause.responseStatus # 0
            => thrown.status = thrown.cause.responseStatus
       /\ (thrown.cause.responseStatus = 0 /\ thrown.cause.status = 0
             /\ thrown.cause.statusCode = 0) => thrown.status = 500

\* C4 witness: the thumbnail was uploaded, the create call was rejected with
\* a status, and the request ended thrown with that status.
C4_Witness ==
  /\ pc = "done"
  /\ Last.ev = "fail" /\ Last.op = "createArticlePost"
  /\ \E i \in DOMAIN log : log[i].op = "put" /\ log[i].ev = "ok"
  /\ thrown.status = 429
  /\ returned = <<>>

RemoteOps == {"userinfo"} \cup ThumbnailOps \cup CreateOps

\* The remote calls issued and not yet ended among the first n events.
Pending(n) ==
  Cardinality({i \in 1..n : log[i].ev = "call" /\ log[i].op \in RemoteOps})
  - Cardinality({i \in 1..n : log[i].ev \in Completions
                              /\ log[i].op \in RemoteOps})

\* C5: the remote calls of one invocation are strictly ordered: a call is
\* issued only when no other is in flight, the identity call has ended
\* before any thumbnail operation, every thumbnail operation has ended
\* before the create call is issued, and only an article post makes
\* thumbnail operations.
C5_CallsOrdered ==
  /\ \A i \in CallIndices(RemoteOps) : Pending(i - 1) = 0
  /\ \A i \in CallIndices(ThumbnailOps \cup CreateOps) :
       \E j \in 1..(i - 1) : log[j].op = "userinfo" /\ log[j].ev = "ok"
  /\ \A i \in CallIndices(CreateOps) :
       \A k \in DOMAIN log :
         log[k].op \in ThumbnailOps \cup {"arrayBuffer", "ogText"} => k < i
  /\ ~IsArticlePost =>
       \A k \in DOMAIN log :
         log[k].op \notin ThumbnailOps \cup {"arrayBuffer", "ogText"}

\* C5 witness: an article post that fetched and uploaded an image after the
\* OG scrape, then issued its create call.
C5_Witness ==
  /\ pc = "create"
  /\ CallsOf({"ogFetch"}) = 1
  /\ CallsOf({"put"}) = 2
  /\ Last.op = "createArticlePost"

MinOf(S) == CHOOSE i \in S : \A j \in S : i <= j

RetIndices(op) == {i \in DOMAIN log : log[i].ev = "ret" /\ log[i].op = op}

\* The first photo yields a URL.
PhotoAttempted ==
  /\ properties.photo.shape # "absent"
  /\ properties.photo.items # <<>>
  /\ properties.photo.items[1].url # <<>>

\* getArticleThumbnail is past its photo step.
PhotoStepOver ==
  /\ IsArticlePost
  /\ GetUserInfoReturned
  /\ PhotoAttempted => RetIndices("uploadImage") # {}

\* The handle the photo step yielded.
PhotoHandle ==
  IF PhotoAttempted /\ RetIndices("uploadImage") # {}
  THEN log[MinOf(RetIndices("uploadImage"))].arg
  ELSE Absent

\* C6: thumbnail resolution short-circuits left to right: the OG scrape of
\* properties.url is attempted if and only if properties.url is present and
\* the photo step yielded no handle; after a photo upload that yielded a
\* handle there is no OG scrape and no second upload, and that handle is the
\* thumbnail.
C6_ThumbnailShortCircuit ==
  /\ CallsOf({"ogFetch"}) >= 1 =>
       /\ PhotoStepOver
       /\ properties.url # <<>>
       /\ PhotoHandle = Absent
       /\ PhotoAttempted =>
            MinOf(RetIndices("uploadImage")) < MinOf(CallIndices({"ogFetch"}))
  /\ (PhotoStepOver /\ properties.url # <<>> /\ PhotoHandle = Absent)
       => CallsOf({"ogFetch"}) = 1
  /\ PhotoHandle # Absent =>
       /\ CallsOf({"ogFetch"}) = 0
       /\ CallsOf({"fetchImage"}) = 1
       /\ \E i \in DOMAIN log :
            log[i] = Event("ret", "getArticleThumbnail", PhotoHandle)

\* C6 witness: the photo upload yielded a handle for a post that has a URL
\* to scrape, and the request ended without a scrape.
C6_Witness ==
  /\ pc = "done"
  /\ properties.url # <<>>
  /\ PhotoHandle # Absent
  /\ CallsOf({"ogFetch"}) = 0
  /\ posts[1].article.thumbnail = PhotoHandle

\* The events of the uploadImage run that event i belongs to start here.
UploadStart(i) ==
  LET S == {k \in 1..i : log[k].ev = "call" /\ log[k].op = "fetchImage"}
  IN IF S = {} THEN 0 ELSE CHOOSE k \in S : \A j \in S : j <= k

\* The initializeUpload responses of the uploads whose image fetch,
\* initializeUpload and PUT all succeeded.
SucceededUploads ==
  {j \in DOMAIN log :
     /\ log[j].ev = "ok" /\ log[j].op = "initializeUpload"
     /\ \E k \in 1..(j - 1) :
          /\ log[k].ev = "ok" /\ log[k].op = "fetchImage"
          /\ UploadStart(k) = UploadStart(j)
     /\ \E i \in (j + 1)..Len(log) :
          /\ log[i].ev = "ok" /\ log[i].op = "put"
          /\ UploadStart(i) = UploadStart(j)}

\* C7: a thumbnail carried by the article create call is the handle that
\* initializeUpload returned in an upload of the same invocation whose three
\* phases all succeeded; when no upload fully succeeded the embedded article
\* carries no thumbnail.
C7_ThumbnailIsUploadedHandle ==
  \A i \in CallIndices({"createArticlePost"}) :
    /\ log[i].arg = posts[1].article.thumbnail
    /\ posts[1].article.thumbnail # Absent =>
         \E j \in SucceededUploads :
           j < i /\ log[j].arg = posts[1].article.thumbnail
    /\ SucceededUploads = {} => posts[1].article.thumbnail = Absent

\* C7 witness: the photo upload failed at the PUT, the upload of the scraped
\* image succeeded, and the article carries the second upload's handle.
C7_Witness ==
  /\ pc = "done"
  /\ \E i \in DOMAIN log : log[i].op = "put" /\ log[i].ev = "notok"
  /\ \E i \in DOMAIN log :
       log[i] = Event("ok", "initializeUpload", <<"urn:li:image:1">>)
  /\ posts[1].article.thumbnail = <<"urn:li:image:2">>

\* The calls of the three endpoints that are called once.
CalledAtMostOnce ==
  /\ CallsOf({"userinfo"}) <= 1
  /\ CallsOf({"ogFetch"}) <= 1
  /\ CallsOf(CreateOps) <= 1

\* C8 as stated: no retries, and the fetch/initialize/PUT sequence is never
\* run again for an image URL whose upload already failed in the invocation.
C8_NoUploadTwiceForUrl ==
  /\ CalledAtMostOnce
  /\ \A i, j \in CallIndices({"fetchImage"}) :
       (i < j /\ \E r \in (i + 1)..(j - 1) :
                   log[r] = Event("ret", "uploadImage", Absent))
         => log[i].arg # log[j].arg

\* C8, amended: the identity endpoint, the OG scrape and the create endpoint
\* are each called at most once; uploadImage runs at most twice, each run
\* making each of its calls at most once, and the second run is never a
\* retry: it is the upload of the image the OG scrape has just returned,
\* after the photo's upload returned absent (even when both URLs are equal).
C8_NoRetryButFallback ==
  /\ CalledAtMostOnce
  /\ CallsOf({"fetchImage"}) <= 2
  /\ \A op \in {"initializeUpload", "put"} :
       \A i, j \in CallIndices({op}) :
         i # j => UploadStart(i) # UploadStart(j)
  /\ \A i, j \in CallIndices({"fetchImage"}) :
       i < j =>
         /\ log[j - 1] = Event("ret", "fetchOpenGraphImage", log[j].arg)
         /\ log[i].arg = properties.photo.items[1].url
         /\ \E r \in (i + 1)..(j - 1) :
              log[r] = Event("ret", "uploadImage", Absent)

\* C8 witness: the photo's upload failed, the scrape returned the photo's
\* own URL, and that URL was fetched a second time.
C8_Witness ==
  \E i, j \in CallIndices({"fetchImage"}) :
    /\ i < j
    /\ log[i].arg = log[j].arg
    /\ CallsOf({"ogFetch"}) = 1

\* C9: getUserInfo fails when the identity response carries no subject
\* identifier: no author URN is produced and no create call is made.
C9_NoSubjectAborts ==
  (\E i \in DOMAIN log : log[i] = Event("ok", "userinfo", Absent)) =>
    /\ ~GetUserInfoReturned
    /\ authorUrn = <<>>
    /\ CallsOf(CreateOps) = 0

\* The commentary was built by createNoteContent, in either mode.
CommentaryBuilt == pc \in {"note", "teaser"}

\* C10 as stated: for every input and every positive limit the commentary
\* is no longer than the limit.
C10_CommentaryWithinLimitAlways ==
  CommentaryBuilt => Len(commentary) <= characterLimit

\* C10, amended: the commentary is no longer than the limit whenever
\* properties.url is absent or the limit is at least one more than the
\* length of "\n\n" followed by properties.url.
C10_CommentaryWithinLimit ==
  (CommentaryBuilt
     /\ (properties.url = <<>> \/ characterLimit >= Len(properties.url) + 3))
    => Len(commentary) <= characterLimit

\* C10 witness: a teaser was truncated to exactly the limit, ellipsis and
\* permalink included.
C10_Witness ==
  /\ pc = "teaser"
  /\ properties.url # <<>>
  /\ characterLimit >= Len(properties.url) + 3
  /\ Len(properties.summary) > characterLimit - (Len(properties.url) + 2)
  /\ Len(commentary) = characterLimit
  /\ \E i \in DOMAIN commentary : commentary[i] = Ellipsis

\* ------------------------------------------------- truncateWithPermalink
\* n copies of the character c.
Rep(c, n) == [i \in 1..n |-> c]

\* A 50-character text and the permalink "https://e.x/p".
LongText == Rep("a", 50)
LongPermalink ==
  <<"h", "t", "t", "p", "s", ":", "/", "/", "e", ".", "x", "/", "p">>

\* The arguments truncateWithPermalink is applied to: text is held in
\* properties.contentText, permalink in properties.url and limit in
\* characterLimit.
TruncateInputs ==
  {Props(<<>>, permalink, <<>>, <<>>, <<>>, text, NoPhoto) :
     text \in Texts \cup {LongText},
     permalink \in Urls \cup {LongPermalink}}

TruncateInit ==
  /\ options = 0
  /\ characterLimit \in (1..MaxLimit) \cup {30}
  /\ properties \in TruncateInputs
  /\ pc = "truncate"
  /\ log = <<>>
  /\ posts = <<>>
  /\ authorUrn = <<>>
  /\ article = NoArticle
  /\ commentary = <<>>
  /\ uploadFor = "none"
  /\ imageUrl = <<>>
  /\ imageUrn = <<>>
  /\ uploadUrl = <<>>
  /\ returned = <<>>
  /\ thrown = NoThrow

\* truncateWithPermalink(text, permalink, limit)
Truncate ==
  /\ pc = "truncate"
  /\ commentary' = truncateWithPermalink(properties.contentText,
                                         properties.url, characterLimit)
  /\ pc' = "truncated"
  /\ UNCHANGED <<options, properties, characterLimit, log, posts, authorUrn,
                 article, uploadFor, imageUrl, imageUrn, uploadUrl, returned,
                 thrown>>

SpecTruncate == TruncateInit /\ [][Truncate]_vars

\* s ends with suffix.
EndsWith(s, suffix) ==
  /\ Len(s) >= Len(suffix)
  /\ SubSeq(s, Len(s) - Len(suffix) + 1, Len(s)) = suffix

\* C11: for all text, permalink and limit with
\* limit >= 1 + length("\n\n" + permalink), truncateWithPermalink returns a
\* string no longer than limit, and when the permalink is not contained in a
\* text that is not empty the result ends with "\n\n" + permalink.
C11_TruncateWithinLimit ==
  (pc = "truncated"
     /\ characterLimit >= 1 + Len(<<NL, NL>> \o properties.url)) =>
    /\ Len(commentary) <= characterLimit
    /\ (properties.contentText # <<>>
          /\ ~Includes(properties.contentText, properties.url))
         => EndsWith(commentary, <<NL, NL>> \o properties.url)

\* C11 witness: the 50-character text with permalink "https://e.x/p" and
\* limit 30 was cut to 30 characters that end with the permalink.
C11_Witness ==
  /\ pc = "truncated"
  /\ properties.contentText = LongText
  /\ properties.url = LongPermalink
  /\ characterLimit = 30
  /\ Len(commentary) = 30
  /\ commentary[15] = Ellipsis
  /\ EndsWith(commentary, <<NL, NL>> \o LongPermalink)

\* --------------------------------------------------- createArticleContent
\* A text of n characters with a space at each position of spaces.
Spaced(n, spaces) == [i \in 1..n |-> IF i \in spaces THEN SP ELSE "a"]

\* Texts around the description limit, with spaces at the start, at the cut
\* and beyond it.
LongTexts ==
  {Spaced(n, spaces) :
     n \in (DescriptionLimit - 2)..(DescriptionLimit + MaxOver),
     spaces \in SUBSET {1, 2, DescriptionLimit - 2, DescriptionLimit - 1,
                        DescriptionLimit}}

\* The properties createArticleContent is applied to: the description comes
\* from summary, from content.html or from content.text.
DescriptionInputs ==
  {Props(<<>>, PostUrl, <<>>, t, <<>>, <<"a">>, NoPhoto) :
     t \in LongTexts \cup Texts}
  \cup
  {Props(<<>>, PostUrl, <<"T">>, <<>>, <<"<b>">> \o t \o <<"</b>">>, <<"a">>,
         NoPhoto) : t \in LongTexts}
  \cup
  {Props(<<>>, Absent, <<"T">>, <<>>, <<>>, t, NoPhoto) : t \in LongTexts}

DescriptionInit ==
  /\ options = 0
  /\ characterLimit = DefaultCharacterLimit
  /\ properties \in DescriptionInputs
  /\ pc = "content"
  /\ log = <<>>
  /\ posts = <<>>
  /\ authorUrn = <<>>
  /\ article = NoArticle
  /\ commentary = <<>>
  /\ uploadFor = "none"
  /\ imageUrl = <<>>
  /\ imageUrn = <<>>
  /\ uploadUrl = <<>>
  /\ returned = <<>>
  /\ thrown = NoThrow

SpecDescription == DescriptionInit /\ [][ArticleContent]_vars

\* The text the description of the request is derived from: summary, else
\* the text of content.html, else content.text, else empty.
Derived ==
  IF properties.summary # <<>> THEN properties.summary
  ELSE IF properties.contentHtml # <<>>
  THEN SelectSeq(properties.contentHtml,
                 LAMBDA tok : tok \notin {"<b>", "</b>", "<img>"})
  ELSE properties.contentText

\* C12: for every input the description built by createArticleContent has
\* at most 256 characters.
C12_DescriptionWithinLimit ==
  pc = "articleContent" => Len(article.description) <= 256

\* C12 witness: a description derived from content.html of more than 256
\* characters of text was cut to 256.
C12_Witness ==
  /\ pc = "articleContent"
  /\ properties.summary = <<>>
  /\ properties.contentHtml # <<>>
  /\ Len(Derived) > 256
  /\ Len(article.description) = 256

\* The first 255 characters of the derived text.
Prefix == SubSeq(Derived, 1, 255)

\* The positions of the prefix that hold no whitespace.
Solid == LET d == Derived IN {k \in 1..255 : d[k] \notin {" ", "\n"}}

\* The prefix without its leading and trailing whitespace.
SolidPrefix ==
  IF Solid = {} THEN <<>>
  ELSE SubSeq(Prefix, CHOOSE i \in Solid : \A k \in Solid : i <= k,
              CHOOSE j \in Solid : \A k \in Solid : k <= j)

\* C13 as stated: a derived text of 257 or more characters gives a
\* description of exactly 256: its first 255 characters and one ellipsis.
C13_DescriptionExactly256 ==
  (pc = "articleContent" /\ Len(Derived) >= 257) =>
    /\ Len(article.description) = 256
    /\ article.description = Prefix \o <<Ellipsis>>

\* C13, amended: a derived text of 257 or more characters gives the first
\* 255 characters, without their leading and trailing whitespace, and one
\* ellipsis: 256 characters exactly when the 255 characters neither start
\* nor end with whitespace, fewer otherwise.
C13_DescriptionCutAndTrimmed ==
  (pc = "articleContent" /\ Len(Derived) >= 257) =>
    /\ article.description = SolidPrefix \o <<Ellipsis>>
    /\ (Len(article.description) = 256) = ({1, 255} \subseteq Solid)

\* C13 witness: the 255th character of a 257-character summary is a space,
\* and the description has 255 characters.
C13_Witness ==
  /\ pc = "articleContent"
  /\ Len(properties.summary) = 257
  /\ properties.summary[255] = " "
  /\ properties.summary[254] = "a"
  /\ properties.summary[1] = "a"
  /\ Len(article.description) = 255
  /\ article.description[255] = Ellipsis

\* The upload calls issued after event i in the uploadImage run of event i.
LaterInRun(i) ==
  {j \in CallIndices(UploadOps) : j > i /\ UploadStart(j) = UploadStart(i)}

\* C14: inside uploadImage the phases run in the order image fetch,
\* initializeUpload, PUT; initializeUpload is called only after the image
\* fetch of the same run returned a success status, the PUT is issued only
\* after initializeUpload of the same run succeeded, and a non-success
\* status or a thrown error at any phase makes uploadImage return absent
\* with no later phase attempted and nothing raised.
C14_UploadPhasesInOrder ==
  /\ \A i \in CallIndices({"initializeUpload"}) :
       /\ UploadStart(i) > 0
       /\ log[UploadStart(i) + 1]
            = Event("ok", "fetchImage", log[UploadStart(i)].arg)
       /\ i = UploadStart(i) + 2
  /\ \A i \in CallIndices({"put"}) :
       /\ UploadStart(i) > 0
       /\ i = UploadStart(i) + 4
       /\ log[i - 2].ev = "call" /\ log[i - 2].op = "initializeUpload"
       /\ log[i - 1].ev = "ok" /\ log[i - 1].op = "initializeUpload"
  /\ \A i \in DOMAIN log :
       (log[i].op \in UploadOps \cup {"arrayBuffer"} /\ log[i].ev \in Failures)
         => /\ LaterInRun(i) = {}
            /\ i < Len(log)
            /\ log[i + 1] = Event("ret", "uploadImage", Absent)
            /\ (pc = "done" /\ thrown # NoThrow) => Last.op \in CreateOps

\* C14 witness: the image was fetched, initializeUpload answered without a
\* value, no PUT was issued, and the article was posted.
C14_Witness ==
  /\ pc = "done"
  /\ \E i \in DOMAIN log :
       /\ log[i].ev = "novalue" /\ log[i].op = "initializeUpload"
       /\ log[i + 1] = Event("ret", "uploadImage", Absent)
  /\ CallsOf({"fetchImage"}) = 1
  /\ CallsOf({"put"}) = 0
  /\ returned # <<>>

====
